---------------------------- MODULE Spec2Model ----------------------------
(***************************************************************************)
(* Model of server.js: the two POST /validate handlers (the detailed one   *)
(* of lines 48-179 and the simplified one of lines 295-399) and the        *)
(* POST /feedback handler (lines 401-426) with its feedback table.         *)
(*                                                                         *)
(* JavaScript values are modelled as they arrive from express.json():      *)
(* undefined (an absent field), null, booleans, numbers and strings.       *)
(* Strings are sequences of one-character strings, and the conversions the *)
(* handlers rely on (ToNumber in the comparisons and isFinite, ToString in *)
(* parseFloat/parseInt, toFixed) are computed character by character.      *)
(* Numbers are exact rationals n/d in lowest terms, or NaN, or +/-Infinity;*)
(* IEEE rounding and the sign of zero are not modelled.                    *)
(***************************************************************************)
EXTENDS Integers, Sequences, FiniteSets, TLC

\* ------------------------------------------------------------------------
\* Bounds of the model
\* ------------------------------------------------------------------------

\* amounts of money drawn for the calculation: 1 .. MaxMoney
MaxMoney == 2

\* feedback requests that may be in flight or finished in one behaviour
MaxRequests == 2

\* ------------------------------------------------------------------------
\* JavaScript numbers
\* ------------------------------------------------------------------------

Abs(i) == IF i < 0 THEN -i ELSE i

RECURSIVE Gcd(_, _)
Gcd(a, b) == IF b = 0 THEN a ELSE Gcd(b, a % b)

RECURSIVE Pow10(_)
Pow10(k) == IF k = 0 THEN 1 ELSE 10 * Pow10(k - 1)

NaN == [k |-> "nan", n |-> 0, d |-> 1]
PosInf == [k |-> "inf", n |-> 1, d |-> 1]
NegInf == [k |-> "inf", n |-> -1, d |-> 1]

\* the finite number n/d (d # 0), in lowest terms with a positive denominator
Fin(n, d) ==
  LET g == Gcd(Abs(n), Abs(d))
      s == IF d < 0 THEN -1 ELSE 1
  IN [k |-> "fin", n |-> (s * n) \div g, d |-> Abs(d) \div g]

Whole(i) == Fin(i, 1)

IsNaN(x) == x.k = "nan"
IsFiniteNum(x) == x.k = "fin"
Sign(x) == IF x.n > 0 THEN 1 ELSE IF x.n < 0 THEN -1 ELSE 0

\* x + y
NumAdd(x, y) ==
  IF IsNaN(x) \/ IsNaN(y) THEN NaN
  ELSE IF x.k = "inf" /\ y.k = "inf" THEN (IF x.n = y.n THEN x ELSE NaN)
  ELSE IF x.k = "inf" THEN x
  ELSE IF y.k = "inf" THEN y
  ELSE Fin(x.n * y.d + y.n * x.d, x.d * y.d)

NumNeg(x) == IF x.k = "nan" THEN NaN ELSE [x EXCEPT !.n = -x.n]

\* x - y
NumSub(x, y) == NumAdd(x, NumNeg(y))

\* x * y
NumMul(x, y) ==
  IF IsNaN(x) \/ IsNaN(y) THEN NaN
  ELSE IF x.k = "inf" \/ y.k = "inf"
    THEN (IF Sign(x) * Sign(y) = 0 THEN NaN
          ELSE IF Sign(x) * Sign(y) > 0 THEN PosInf ELSE NegInf)
  ELSE Fin(x.n * y.n, x.d * y.d)

\* x / y: a zero divisor gives +/-Infinity, or NaN for 0 / 0
NumDiv(x, y) ==
  IF IsNaN(x) \/ IsNaN(y) THEN NaN
  ELSE IF x.k = "inf" /\ y.k = "inf" THEN NaN
  ELSE IF x.k = "inf" THEN (IF Sign(x) * Sign(y) < 0 THEN NegInf ELSE PosInf)
  ELSE IF y.k = "inf" THEN Whole(0)
  ELSE IF y.n = 0
    THEN (IF x.n = 0 THEN NaN ELSE IF x.n > 0 THEN PosInf ELSE NegInf)
  ELSE Fin(x.n * y.d, x.d * y.n)

\* x < y; every comparison with NaN is false
NumLt(x, y) ==
  IF IsNaN(x) \/ IsNaN(y) THEN FALSE
  ELSE IF x.k = "inf" /\ y.k = "inf" THEN x.n < y.n
  ELSE IF x.k = "inf" THEN x.n < 0
  ELSE IF y.k = "inf" THEN y.n > 0
  ELSE x.n * y.d < y.n * x.d

NumGt(x, y) == NumLt(y, x)
NumLe(x, y) == ~IsNaN(x) /\ ~IsNaN(y) /\ ~NumLt(y, x)
NumGe(x, y) == NumLe(y, x)

\* Math.floor(x)
MathFloor(x) == IF x.k = "fin" THEN Whole(x.n \div x.d) ELSE x

\* ------------------------------------------------------------------------
\* JavaScript strings and the string <-> number conversions
\* ------------------------------------------------------------------------

DecDigits == <<"0", "1", "2", "3", "4", "5", "6", "7", "8", "9">>
HexDigits == DecDigits \o <<"a", "b", "c", "d", "e", "f">>

\* the digits of the given radix (10 or 16)
RadixDigits(radix) == IF radix = 16 THEN HexDigits ELSE DecDigits

IsDigit(c, radix) == \E i \in 1..Len(RadixDigits(radix)) : RadixDigits(radix)[i] = c

DigitVal(c, radix) ==
  (CHOOSE i \in 1..Len(RadixDigits(radix)) : RadixDigits(radix)[i] = c) - 1

IsSpace(c) == c = " "

\* s from position p on
From(s, p) == SubSeq(s, p, Len(s))

RECURSIVE TrimStart(_)
TrimStart(s) ==
  IF s # <<>> /\ IsSpace(Head(s)) THEN TrimStart(Tail(s)) ELSE s

RECURSIVE TrimEnd(_)
TrimEnd(s) ==
  IF s # <<>> /\ IsSpace(s[Len(s)]) THEN TrimEnd(SubSeq(s, 1, Len(s) - 1)) ELSE s

\* String.prototype.trim, also validator.js trim() with no chars argument
Trim(s) == TrimEnd(TrimStart(s))

\* the number of leading digits of s
RECURSIVE DigitRun(_, _)
DigitRun(s, radix) ==
  IF s # <<>> /\ IsDigit(Head(s), radix) THEN 1 + DigitRun(Tail(s), radix) ELSE 0

\* the value of the digit string s
RECURSIVE DigitsValue(_, _)
DigitsValue(s, radix) ==
  IF s = <<>> THEN 0
  ELSE DigitsValue(SubSeq(s, 1, Len(s) - 1), radix) * radix
       + DigitVal(s[Len(s)], radix)

HasPrefix(s, p) == Len(s) >= Len(p) /\ SubSeq(s, 1, Len(p)) = p

InfinityWord == <<"I", "n", "f", "i", "n", "i", "t", "y">>

\* the length of a sign at the front of s, and the sign's factor
SignLen(s) == IF s # <<>> /\ s[1] \in {"+", "-"} THEN 1 ELSE 0
SignOf(s) == IF s # <<>> /\ s[1] = "-" THEN -1 ELSE 1

\* an exponent part at the front of s (e or E, an optional sign, digits):
\* the characters it takes (0: none) and the exponent
ExponentPrefix(s) ==
  IF s = <<>> \/ s[1] \notin {"e", "E"} THEN [len |-> 0, exp |-> 0]
  ELSE IF DigitRun(From(s, 2 + SignLen(Tail(s))), 10) = 0 THEN [len |-> 0, exp |-> 0]
  ELSE [len |-> 1 + SignLen(Tail(s)) + DigitRun(From(s, 2 + SignLen(Tail(s))), 10),
        exp |-> SignOf(Tail(s))
                * DigitsValue(SubSeq(s, 2 + SignLen(Tail(s)),
                    1 + SignLen(Tail(s)) + DigitRun(From(s, 2 + SignLen(Tail(s))), 10)), 10)]

\* mant / 10^fl * 10^exp
Scaled(mant, fl, exp) ==
  IF exp < 0 THEN Fin(mant, Pow10(fl) * Pow10(-exp))
  ELSE Fin(mant * Pow10(exp), Pow10(fl))

\* the digits of a decimal literal at the front of s: il integer digits, then
\* (dot = 1) a point and fl fraction digits, then an exponent part e
MantissaPrefix(s, il, dot, fl, e) ==
  IF il + fl = 0 THEN [len |-> 0, val |-> NaN]
  ELSE [len |-> il + dot + fl + e.len,
        val |-> Scaled(DigitsValue(SubSeq(s, 1, il), 10) * Pow10(fl)
                       + DigitsValue(SubSeq(s, il + 2, il + 1 + fl), 10), fl, e.exp)]

\* 1 when a decimal point follows the first il characters of s
DotAt(s, il) == IF Len(s) > il /\ s[il + 1] = "." THEN 1 ELSE 0

FractionPrefix(s, il, dot) ==
  MantissaPrefix(s, il, dot, dot * DigitRun(From(s, il + 2), 10),
                 ExponentPrefix(From(s, il + dot + dot * DigitRun(From(s, il + 2), 10) + 1)))

\* the longest prefix of the unsigned s that is Infinity or a decimal literal
UnsignedPrefix(s, il) ==
  IF HasPrefix(s, InfinityWord) THEN [len |-> Len(InfinityWord), val |-> PosInf]
  ELSE FractionPrefix(s, il, DotAt(s, il))

\* the result r of the unsigned part, with the sign sgn of length sl in front
Signed(r, sl, sgn) ==
  IF r.len = 0 THEN r
  ELSE [len |-> sl + r.len,
        val |-> IF sgn < 0 THEN [r.val EXCEPT !.n = -r.val.n] ELSE r.val]

\* The longest prefix of s that is a StrDecimalLiteral: an optional sign, then
\* Infinity or digits with an optional fraction and an optional exponent.
\* len is the number of characters taken (0: no literal), val its value.
DecimalPrefix(s) ==
  Signed(UnsignedPrefix(From(s, SignLen(s) + 1), DigitRun(From(s, SignLen(s) + 1), 10)),
         SignLen(s), SignOf(s))

\* ToNumber applied to a string (StringToNumber): white space is trimmed at
\* both ends, the empty string is 0, 0x... is hexadecimal, and anything that
\* is not a numeric literal as a whole is NaN
HasHexPrefix(u) == Len(u) >= 2 /\ u[1] = "0" /\ u[2] \in {"x", "X"}

\* ToNumber of the trimmed string t, p being its decimal prefix
TrimmedToNumber(t, p) ==
  IF t = <<>> THEN Whole(0)
  ELSE IF Len(t) > 2 /\ HasHexPrefix(t) /\ DigitRun(From(t, 3), 16) = Len(t) - 2
    THEN Whole(DigitsValue(From(t, 3), 16))
  ELSE IF p.len = Len(t) THEN p.val
  ELSE NaN

StringToNumber(s) == TrimmedToNumber(Trim(s), DecimalPrefix(Trim(s)))

\* parseFloat applied to a string: leading white space is skipped and the
\* longest decimal literal at the front is taken, whatever follows it
StrParseFloat(s) == DecimalPrefix(TrimStart(s)).val

\* the digits at the front of z in radix r, as a number with sign sgn
DigitsPrefix(z, r, sgn) ==
  IF DigitRun(z, r) = 0 THEN NaN
  ELSE Whole(sgn * DigitsValue(SubSeq(z, 1, DigitRun(z, r)), r))

\* parseInt of the unsigned u: 0x is stripped for radix 16 or no radix
UnsignedParseInt(u, radix, sgn) ==
  IF radix \in {0, 16} /\ HasHexPrefix(u) THEN DigitsPrefix(From(u, 3), 16, sgn)
  ELSE DigitsPrefix(u, IF radix = 0 THEN 10 ELSE radix, sgn)

TrimmedParseInt(t, radix) == UnsignedParseInt(From(t, SignLen(t) + 1), radix, SignOf(t))

\* parseInt applied to a string; radix 0 stands for a missing radix argument
StrParseInt(s, radix) == TrimmedParseInt(TrimStart(s), radix)

\* the decimal digits of the natural number i
RECURSIVE NatToString(_)
NatToString(i) ==
  IF i < 10 THEN <<DecDigits[i + 1]>>
  ELSE NatToString(i \div 10) \o <<DecDigits[(i % 10) + 1]>>

\* the number of fraction digits a finite number with denominator d needs
\* (d divides a power of ten for every number read from a JSON document)
RECURSIVE FracDigits(_, _)
FracDigits(d, f) == IF Pow10(f) % d = 0 THEN f ELSE FracDigits(d, f + 1)

\* i as exactly w digits, padded with zeros on the left
RECURSIVE Padded(_, _)
Padded(i, w) ==
  IF w = 0 THEN <<>> ELSE Padded(i \div 10, w - 1) \o <<DecDigits[(i % 10) + 1]>>

\* Number::toString for the numbers a request carries (below 1e21 in size)
NumberToString(x) ==
  IF x.k = "nan" THEN <<"N", "a", "N">>
  ELSE IF x.k = "inf"
    THEN (IF x.n < 0 THEN <<"-">> ELSE <<>>) \o InfinityWord
  ELSE LET f == FracDigits(x.d, 0)
           m == (Abs(x.n) * Pow10(f)) \div x.d
       IN (IF x.n < 0 THEN <<"-">> ELSE <<>>)
          \o NatToString(m \div Pow10(f))
          \o (IF f = 0 THEN <<>> ELSE <<".">> \o Padded(m % Pow10(f), f))

\* Number.prototype.toFixed(2): the nearest multiple of 0.01, the larger one
\* on a tie, with the sign put back in front
ToFixed2(x) ==
  IF x.k # "fin" THEN NumberToString(x)
  ELSE LET c == (2 * Abs(x.n) * 100 + x.d) \div (2 * x.d)
       IN (IF x.n < 0 THEN <<"-">> ELSE <<>>)
          \o NatToString(c \div 100) \o <<".">> \o Padded(c % 100, 2)

\* ------------------------------------------------------------------------
\* JavaScript values of a parsed JSON body
\* ------------------------------------------------------------------------

Undefined == [t |-> "undefined", num |-> NaN, str |-> <<>>]
Null == [t |-> "null", num |-> NaN, str |-> <<>>]
JSBool(b) == [t |-> "boolean", num |-> Whole(IF b THEN 1 ELSE 0), str |-> <<>>]
JSNum(x) == [t |-> "number", num |-> x, str |-> <<>>]
JSStr(s) == [t |-> "string", num |-> NaN, str |-> s]

\* !v
Falsy(v) ==
  CASE v.t = "undefined" -> TRUE
    [] v.t = "null" -> TRUE
    [] v.t = "boolean" -> v.num.n = 0
    [] v.t = "number" -> IsNaN(v.num) \/ (v.num.k = "fin" /\ v.num.n = 0)
    [] v.t = "string" -> v.str = <<>>

\* ToNumber(v)
ToNumber(v) ==
  CASE v.t = "undefined" -> NaN
    [] v.t = "null" -> Whole(0)
    [] v.t = "boolean" -> v.num
    [] v.t = "number" -> v.num
    [] v.t = "string" -> StringToNumber(v.str)

\* JsToString(v)
JsToString(v) ==
  CASE v.t = "undefined" -> <<"u", "n", "d", "e", "f", "i", "n", "e", "d">>
    [] v.t = "null" -> <<"n", "u", "l", "l">>
    [] v.t = "boolean" ->
         (IF v.num.n = 1 THEN <<"t", "r", "u", "e">> ELSE <<"f", "a", "l", "s", "e">>)
    [] v.t = "number" -> NumberToString(v.num)
    [] v.t = "string" -> v.str

\* v < x, v <= x, v > x, v >= x against a number x: v is converted with ToNumber
Lt(v, x) == NumLt(ToNumber(v), x)
Le(v, x) == NumLe(ToNumber(v), x)
Gt(v, x) == NumGt(ToNumber(v), x)

\* the globals parseFloat, parseInt (radix 0: no radix given), isNaN, isFinite
parseFloat(v) == StrParseFloat(JsToString(v))
parseInt(v, radix) == StrParseInt(JsToString(v), radix)
isNaN(v) == IsNaN(ToNumber(v))
isFinite(v) == IsFiniteNum(ToNumber(v))

isNumeric(value) == ~isNaN(JSNum(parseFloat(value))) /\ isFinite(value)

\* JSON.stringify of a number in res.json: NaN and the infinities become null
JsonNumber(x) == IF IsFiniteNum(x) THEN JSNum(x) ELSE Null

NoError == ""

\* what has been sent before any response is
NoResponse == [status |-> 0]

\* ------------------------------------------------------------------------
\* POST /validate, simplified handler
\* ------------------------------------------------------------------------

SimplifiedFields ==
  <<"movingAndSetupCost", "monthlyLivingCost", "rent", "securityDeposit",
    "totalMonthlyIncome", "totalSavings", "monthsToEvaluate">>

fieldLabels ==
  [movingAndSetupCost |-> "Moving & Setup Costs",
   monthlyLivingCost |-> "Monthly Living Costs",
   rent |-> "Monthly Rent",
   securityDeposit |-> "Security Deposit",
   totalMonthlyIncome |-> "Total Monthly Income",
   totalSavings |-> "Total Savings",
   monthsToEvaluate |-> "Months to Evaluate"]

\* the checks with the upper bound of the months left out
RangeErrorNoUpperBound(b) ==
  IF Falsy(b.movingAndSetupCost) \/ Lt(b.movingAndSetupCost, Whole(0))
    THEN "Invalid moving and setup costs provided."
  ELSE IF Falsy(b.monthlyLivingCost) \/ Lt(b.monthlyLivingCost, Whole(0))
    THEN "Invalid monthly living costs provided."
  ELSE IF Falsy(b.rent) \/ Le(b.rent, Whole(0))
    THEN "Invalid rent provided."
  ELSE IF Falsy(b.monthsToEvaluate) \/ Lt(b.monthsToEvaluate, Whole(1))
    THEN "Months To Evaluate must be between 1 and 60."
  ELSE IF Falsy(b.securityDeposit) \/ Lt(b.securityDeposit, Whole(0))
    THEN "Invalid security deposit provided."
  ELSE IF Falsy(b.totalMonthlyIncome) \/ Le(b.totalMonthlyIncome, Whole(0))
    THEN "Invalid total monthly income provided."
  ELSE IF Falsy(b.totalSavings) \/ Lt(b.totalSavings, Whole(0))
    THEN "Invalid total savings provided."
  ELSE NoError

\* the checks with the security deposit checked before the months
RangeErrorDepositBeforeMonths(b) ==
  IF Falsy(b.movingAndSetupCost) \/ Lt(b.movingAndSetupCost, Whole(0))
    THEN "Invalid moving and setup costs provided."
  ELSE IF Falsy(b.monthlyLivingCost) \/ Lt(b.monthlyLivingCost, Whole(0))
    THEN "Invalid monthly living costs provided."
  ELSE IF Falsy(b.rent) \/ Le(b.rent, Whole(0))
    THEN "Invalid rent provided."
  ELSE IF Falsy(b.securityDeposit) \/ Lt(b.securityDeposit, Whole(0))
    THEN "Invalid security deposit provided."
  ELSE IF Falsy(b.monthsToEvaluate) \/ Lt(b.monthsToEvaluate, Whole(1))
          \/ Gt(b.monthsToEvaluate, Whole(60))
    THEN "Months To Evaluate must be between 1 and 60."
  ELSE IF Falsy(b.totalMonthlyIncome) \/ Le(b.totalMonthlyIncome, Whole(0))
    THEN "Invalid total monthly income provided."
  ELSE IF Falsy(b.totalSavings) \/ Lt(b.totalSavings, Whole(0))
    THEN "Invalid total savings provided."
  ELSE NoError

\* the checks with only an absent totalSavings counted as missing, not a 0
RangeErrorZeroSavingsPresent(b) ==
  IF Falsy(b.movingAndSetupCost) \/ Lt(b.movingAndSetupCost, Whole(0))
    THEN "Invalid moving and setup costs provided."
  ELSE IF Falsy(b.monthlyLivingCost) \/ Lt(b.monthlyLivingCost, Whole(0))
    THEN "Invalid monthly living costs provided."
  ELSE IF Falsy(b.rent) \/ Le(b.rent, Whole(0))
    THEN "Invalid rent provided."
  ELSE IF Falsy(b.monthsToEvaluate) \/ Lt(b.monthsToEvaluate, Whole(1))
          \/ Gt(b.monthsToEvaluate, Whole(60))
    THEN "Months To Evaluate must be between 1 and 60."
  ELSE IF Falsy(b.securityDeposit) \/ Lt(b.securityDeposit, Whole(0))
    THEN "Invalid security deposit provided."
  ELSE IF Falsy(b.totalMonthlyIncome) \/ Le(b.totalMonthlyIncome, Whole(0))
    THEN "Invalid total monthly income provided."
  ELSE IF b.totalSavings.t = "undefined" \/ Lt(b.totalSavings, Whole(0))
    THEN "Invalid total savings provided."
  ELSE NoError

\* the error of the presence/range checks, in the order of the if statements
SimplifiedRangeError(b) ==
  IF Falsy(b.movingAndSetupCost) \/ Lt(b.movingAndSetupCost, Whole(0))
    THEN "Invalid moving and setup costs provided."
  ELSE IF Falsy(b.monthlyLivingCost) \/ Lt(b.monthlyLivingCost, Whole(0))
    THEN "Invalid monthly living costs provided."
  ELSE IF Falsy(b.rent) \/ Le(b.rent, Whole(0))
    THEN "Invalid rent provided."
  ELSE IF Falsy(b.monthsToEvaluate) \/ Lt(b.monthsToEvaluate, Whole(1))
          \/ Gt(b.monthsToEvaluate, Whole(60))
    THEN "Months To Evaluate must be between 1 and 60."
  ELSE IF Falsy(b.securityDeposit) \/ Lt(b.securityDeposit, Whole(0))
    THEN "Invalid security deposit provided."
  ELSE IF Falsy(b.totalMonthlyIncome) \/ Le(b.totalMonthlyIncome, Whole(0))
    THEN "Invalid total monthly income provided."
  ELSE IF Falsy(b.totalSavings) \/ Lt(b.totalSavings, Whole(0))
    THEN "Invalid total savings provided."
  ELSE NoError

\* the loop over Object.entries(parameters), from entry i on: the message for
\* the first entry, in the order the parameters object lists them, that is
\* not numeric
RECURSIVE NumericErrorFrom(_, _, _, _)
NumericErrorFrom(b, fields, labels, i) ==
  IF i > Len(fields) THEN NoError
  ELSE IF ~isNumeric(b[fields[i]]) THEN labels[fields[i]] \o " must be a valid number."
  ELSE NumericErrorFrom(b, fields, labels, i + 1)

NumericError(b, fields, labels) == NumericErrorFrom(b, fields, labels, 1)

SimplifiedError(b) ==
  LET e == SimplifiedRangeError(b)
  IN IF e # NoError THEN e ELSE NumericError(b, SimplifiedFields, fieldLabels)

\* the conversions and the calculation of the try block
SimplifiedCalc(b) ==
  LET numMovingAndSetupCost == parseFloat(b.movingAndSetupCost)
      numMonthlyLivingCost == parseFloat(b.monthlyLivingCost)
      numRent == parseFloat(b.rent)
      numSecurityDeposit == parseFloat(b.securityDeposit)
      numTotalMonthlyIncome == parseFloat(b.totalMonthlyIncome)
      numTotalSavings == parseFloat(b.totalSavings)
      numMonthsToEvaluate == parseInt(b.monthsToEvaluate, 10)
      initialCosts == NumAdd(numMovingAndSetupCost, numSecurityDeposit)
      totalMonthlyCost == NumAdd(numMonthlyLivingCost, numRent)
      totalCostOverTime ==
        NumAdd(initialCosts, NumMul(totalMonthlyCost, numMonthsToEvaluate))
      totalFundsAvailable ==
        NumAdd(numTotalSavings, NumMul(numTotalMonthlyIncome, numMonthsToEvaluate))
      canAfford == NumGe(totalFundsAvailable, totalCostOverTime)
      additionalMonthlyIncomeNeeded ==
        IF canAfford THEN JSNum(Whole(0))
        ELSE JSStr(ToFixed2(NumSub(
               NumDiv(NumSub(totalCostOverTime, numTotalSavings), numMonthsToEvaluate),
               numTotalMonthlyIncome)))
  IN [numTotalMonthlyIncome |-> numTotalMonthlyIncome,
      numTotalSavings |-> numTotalSavings,
      numMonthsToEvaluate |-> numMonthsToEvaluate,
      initialCosts |-> initialCosts,
      totalMonthlyCost |-> totalMonthlyCost,
      totalCostOverTime |-> totalCostOverTime,
      totalFundsAvailable |-> totalFundsAvailable,
      affordabilityDuration |-> MathFloor(NumDiv(totalFundsAvailable, totalMonthlyCost)),
      canAfford |-> canAfford,
      additionalMonthlyIncomeNeeded |-> additionalMonthlyIncomeNeeded]

\* the response object as res.json sends it
ResultJson(c, canAfford) ==
  [initialCosts |-> JsonNumber(c.initialCosts),
   totalMonthlyCost |-> JsonNumber(c.totalMonthlyCost),
   totalCostOverTime |-> JsonNumber(c.totalCostOverTime),
   affordabilityDuration |-> JsonNumber(c.affordabilityDuration),
   canAfford |-> canAfford,
   additionalMonthlyIncomeNeeded |-> c.additionalMonthlyIncomeNeeded]

\* The handler: the status and body sent, and for a 200 the locals of the
\* calculation (calc). None of the operations of the try block throws, so
\* the 500 of the catch block is never sent.
ValidateSimplified(b) ==
  LET e == SimplifiedError(b)
      c == SimplifiedCalc(b)
  IN IF e # NoError THEN [status |-> 400, body |-> [error |-> e]]
     ELSE [status |-> 200, body |-> ResultJson(c, c.canAfford), calc |-> c]

\* ------------------------------------------------------------------------
\* POST /validate, detailed handler
\* ------------------------------------------------------------------------

DetailedFields ==
  <<"movingCost", "immediateCost", "rent", "securityDeposit", "utilities",
    "associatedCost", "netIncome", "savings", "monthsToEvaluate", "otherExpenses">>

detailedFieldLabels ==
  [movingCost |-> "Moving Cost",
   rent |-> "Monthly Rent",
   utilities |-> "Utilities",
   immediateCost |-> "Immediate Cost",
   securityDeposit |-> "Security Deposit",
   netIncome |-> "Net Income",
   savings |-> "Total Savings",
   monthsToEvaluate |-> "Months to Evaluate",
   associatedCost |-> "Associated Cost",
   otherExpenses |-> "Other Expenses"]

DetailedRangeError(b) ==
  IF Falsy(b.movingCost) \/ Lt(b.movingCost, Whole(0))
    THEN "Invalid moving cost provided."
  ELSE IF Falsy(b.rent) \/ Le(b.rent, Whole(0))
    THEN "Invalid rent provided."
  ELSE IF Falsy(b.utilities) \/ Le(b.utilities, Whole(0))
    THEN "Invalid utilities cost provided."
  ELSE IF Falsy(b.immediateCost) \/ Lt(b.immediateCost, Whole(0))
    THEN "Invalid immediate cost provided."
  ELSE IF Falsy(b.monthsToEvaluate) \/ Lt(b.monthsToEvaluate, Whole(1))
          \/ Gt(b.monthsToEvaluate, Whole(60))
    THEN "Months To Evaluate must be between 1 and 12."
  ELSE IF Falsy(b.securityDeposit) \/ Lt(b.securityDeposit, Whole(0))
    THEN "Invalid security deposit provided."
  ELSE IF Falsy(b.associatedCost) \/ Lt(b.associatedCost, Whole(0))
    THEN "Invalid associated cost provided."
  ELSE IF Falsy(b.netIncome) \/ Le(b.netIncome, Whole(0))
    THEN "Invalid net income provided."
  ELSE IF Falsy(b.savings) \/ Lt(b.savings, Whole(0))
    THEN "Invalid savings amount provided."
  ELSE IF Falsy(b.otherExpenses) \/ Le(b.otherExpenses, Whole(0))
    THEN "Invalid other expenses amount provided."
  ELSE NoError

DetailedError(b) ==
  LET e == DetailedRangeError(b)
  IN IF e # NoError THEN e ELSE NumericError(b, DetailedFields, detailedFieldLabels)

DetailedCalc(b) ==
  LET numMovingCost == parseFloat(b.movingCost)
      numRent == parseFloat(b.rent)
      numUtilities == parseFloat(b.utilities)
      numImmediateCost == parseFloat(b.immediateCost)
      numSecurityDeposit == parseFloat(b.securityDeposit)
      numNetIncome == parseFloat(b.netIncome)
      numSavings == parseFloat(b.savings)
      numMonthsToEvaluate == parseInt(b.monthsToEvaluate, 10)
      numAssociatedCost == parseInt(b.associatedCost, 0)
      numOtherExpenses == parseInt(b.otherExpenses, 0)
      initialCosts ==
        NumAdd(NumAdd(NumAdd(numMovingCost, numImmediateCost), numSecurityDeposit),
               numAssociatedCost)
      totalMonthlyCost == NumAdd(NumAdd(numRent, numUtilities), numOtherExpenses)
      totalCostOverTime ==
        NumAdd(initialCosts, NumMul(totalMonthlyCost, numMonthsToEvaluate))
      totalFundsAvailable ==
        NumAdd(numSavings, NumMul(numNetIncome, numMonthsToEvaluate))
      affordabilityDuration == MathFloor(NumDiv(totalFundsAvailable, totalMonthlyCost))
      canAfford == NumGe(affordabilityDuration, numMonthsToEvaluate)
      additionalMonthlyIncomeNeeded ==
        IF canAfford THEN JSNum(Whole(0))
        ELSE JSStr(ToFixed2(NumSub(totalMonthlyCost,
               NumAdd(numNetIncome, NumDiv(numSavings, numMonthsToEvaluate)))))
  IN [numTotalMonthlyIncome |-> numNetIncome,
      numTotalSavings |-> numSavings,
      numMonthsToEvaluate |-> numMonthsToEvaluate,
      initialCosts |-> initialCosts,
      totalMonthlyCost |-> totalMonthlyCost,
      totalCostOverTime |-> totalCostOverTime,
      totalFundsAvailable |-> totalFundsAvailable,
      affordabilityDuration |-> affordabilityDuration,
      canAfford |-> canAfford,
      additionalMonthlyIncomeNeeded |-> additionalMonthlyIncomeNeeded]

\* the response's canAfford compares with the monthsToEvaluate of the body,
\* not with the parsed one
ValidateDetailed(b) ==
  LET e == DetailedError(b)
      c == DetailedCalc(b)
  IN IF e # NoError THEN [status |-> 400, body |-> [error |-> e]]
     ELSE [status |-> 200,
           body |-> ResultJson(c, NumGe(c.affordabilityDuration,
                                        ToNumber(b.monthsToEvaluate))),
           calc |-> c]

\* ------------------------------------------------------------------------
\* POST /feedback
\* ------------------------------------------------------------------------

\* validator.js escape(), which express-validator's .escape() applies; the
\* grave accent, which a TLA+ string cannot hold, is the character "grave"
EscapeChar(c) ==
  CASE c = "&" -> <<"&", "a", "m", "p", ";">>
    [] c = "\"" -> <<"&", "q", "u", "o", "t", ";">>
    [] c = "'" -> <<"&", "#", "x", "2", "7", ";">>
    [] c = "<" -> <<"&", "l", "t", ";">>
    [] c = ">" -> <<"&", "g", "t", ";">>
    [] c = "/" -> <<"&", "#", "x", "2", "F", ";">>
    [] c = "\\" -> <<"&", "#", "x", "5", "C", ";">>
    [] c = "grave" -> <<"&", "#", "9", "6", ";">>
    [] OTHER -> <<c>>

RECURSIVE Escape(_)
Escape(s) == IF s = <<>> THEN <<>> ELSE EscapeChar(Head(s)) \o Escape(Tail(s))

\* body("feedback").trim().escape(): the sanitizers convert the field to a
\* string (an absent field to the empty one), trim it and escape it
Sanitize(v) ==
  Escape(Trim(IF v.t \in {"undefined", "null"} THEN <<>> ELSE JsToString(v)))

\* validationResult(req).array(): the chain holds sanitizers only and no
\* validator, so no field ever has an error
ValidationErrors(v) == <<>>

\* the response of the catch block
InternalServerError == [error |-> "Internal server error"]

\* ------------------------------------------------------------------------
\* State
\* ------------------------------------------------------------------------

VARIABLES
  variant,   \* the /validate handler that answered last: "detailed", "simplified"
  req,       \* the body of the last /validate request
  res,       \* the response to it
  table,     \* the rows of the feedback table, in insertion order
  nextId,    \* the id the table gives to the next row
  fb         \* the /feedback requests received so far, in arrival order

vars == <<variant, req, res, table, nextId, fb>>

validateVars == <<variant, req, res>>
feedbackVars == <<table, nextId, fb>>

\* ------------------------------------------------------------------------
\* Inputs
\* ------------------------------------------------------------------------

\* whole amounts of money, with the months absent, 0, 0.5, 1, 2.5, 60, 61,
\* and the strings "2", "a", "0x10"
MoneyInputs == {JSNum(Whole(k)) : k \in 1..MaxMoney}
MoneyMonthsInputs ==
  {Undefined, JSNum(Whole(0)), JSNum(Fin(1, 2)), JSNum(Whole(1)), JSNum(Fin(5, 2)),
   JSNum(Whole(60)), JSNum(Whole(61)), JSStr(<<"2">>), JSStr(<<"a">>),
   JSStr(<<"0", "x", "1", "0">>)}

\* amounts sent as text: the number 1 and the strings "0" and "0x1", with the
\* same months
TextInputs == {JSNum(Whole(1)), JSStr(<<"0">>), JSStr(<<"0", "x", "1">>)}

\* an absent field, the number 0, the string "a", and a valid amount, with the
\* months absent, 0, 1, 61, and the string "a"
FieldInputs == {Undefined, JSNum(Whole(0)), JSStr(<<"a">>), JSNum(Whole(1))}
FieldMonthsInputs ==
  {Undefined, JSNum(Whole(0)), JSNum(Whole(1)), JSNum(Whole(61)), JSStr(<<"a">>)}

\* the numbers -1, 0 and 1, with the months -1, 1, 60 and 61
SignedInputs == {JSNum(Whole(-1)), JSNum(Whole(0)), JSNum(Whole(1))}
SignedMonthsInputs ==
  {JSNum(Whole(-1)), JSNum(Whole(1)), JSNum(Whole(60)), JSNum(Whole(61))}

\* the families of inputs: the six amounts drawn from the first set and the
\* months from the second
InputFamilies ==
  {<<FieldInputs, FieldMonthsInputs>>, <<MoneyInputs, MoneyMonthsInputs>>,
   <<TextInputs, MoneyMonthsInputs>>, <<SignedInputs, SignedMonthsInputs>>}

SimplifiedBody(m, l, r, d, i, s, n) ==
  [movingAndSetupCost |-> m, monthlyLivingCost |-> l, rent |-> r,
   securityDeposit |-> d, totalMonthlyIncome |-> i, totalSavings |-> s,
   monthsToEvaluate |-> n]

\* the detailed handler's inputs: two amounts, and four values for the months
DetailedInputs == {JSNum(Whole(1)), JSNum(Whole(3))}
DetailedMonthsInputs == {Undefined, JSNum(Whole(1)), JSNum(Whole(2)), JSNum(Whole(61))}

DetailedBody(m, i, r, d, u, a, n, s, t, o) ==
  [movingCost |-> m, immediateCost |-> i, rent |-> r, securityDeposit |-> d,
   utilities |-> u, associatedCost |-> a, netIncome |-> n, savings |-> s,
   monthsToEvaluate |-> t, otherExpenses |-> o]

\* the /validate bodies sent to a server that also takes feedback: one that
\* is accepted and one that is rejected, for each handler
One == JSNum(Whole(1))
Zero == JSNum(Whole(0))
ServerSimplifiedBodies ==
  {SimplifiedBody(One, One, One, One, One, One, One),
   SimplifiedBody(One, One, Zero, One, One, One, One)}
ServerDetailedBodies ==
  {DetailedBody(One, One, One, One, One, One, One, One, One, One),
   DetailedBody(One, One, Zero, One, One, One, One, One, One, One)}

\* the feedback field: absent, blank, and a text to trim and escape
FeedbackInputs == {Undefined, JSStr(<<" ">>), JSStr(<<" ", "a", "<", " ">>)}

\* ------------------------------------------------------------------------
\* Actions
\* ------------------------------------------------------------------------

PostValidateSimplified(b) ==
  /\ variant' = "simplified"
  /\ req' = b
  /\ res' = ValidateSimplified(b)
  /\ UNCHANGED feedbackVars

PostValidateDetailed(b) ==
  /\ variant' = "detailed"
  /\ req' = b
  /\ res' = ValidateDetailed(b)
  /\ UNCHANGED feedbackVars

NoRow == [id |-> 0, content |-> <<>>]

\* POST /feedback up to the await: the sanitizers run, validationResult is
\* read, and either the 400 is sent or the INSERT is handed to the pool
PostFeedback(v) ==
  /\ Len(fb) < MaxRequests
  /\ fb' = Append(fb,
       IF ValidationErrors(v) # <<>>
         THEN [raw |-> v, feedback |-> Sanitize(v), query |-> "none", row |-> NoRow,
               sent |-> 1, sentAt |-> "none", status |-> 400,
               body |-> [errors |-> ValidationErrors(v)]]
       ELSE [raw |-> v, feedback |-> Sanitize(v), query |-> "pending", row |-> NoRow,
             sent |-> 0, sentAt |-> "none", status |-> 0, body |-> <<>>])
  /\ UNCHANGED <<table, nextId>>
  /\ UNCHANGED validateVars

\* the database runs INSERT INTO feedback (content) VALUES ($1) RETURNING *
\* of request i: the row is in the table and the promise resolves with it
QueryResolves(i) ==
  /\ fb[i].query = "pending"
  /\ LET row == [id |-> nextId, content |-> fb[i].feedback]
     IN /\ table' = Append(table, row)
        /\ fb' = [fb EXCEPT ![i].query = "resolved", ![i].row = row]
  /\ nextId' = nextId + 1
  /\ UNCHANGED validateVars

\* a database that stores the row and then reports a failure
QueryRejectsAfterInsert(i) ==
  /\ fb[i].query = "pending"
  /\ table' = Append(table, [id |-> nextId, content |-> fb[i].feedback])
  /\ fb' = [fb EXCEPT ![i].query = "rejected"]
  /\ nextId' = nextId + 1
  /\ UNCHANGED validateVars

\* the INSERT of request i fails (connectivity, a constraint): no row is
\* stored and the promise rejects
QueryRejects(i) ==
  /\ fb[i].query = "pending"
  /\ fb' = [fb EXCEPT ![i].query = "rejected"]
  /\ UNCHANGED <<table, nextId>>
  /\ UNCHANGED validateVars

\* a handler that does not await the query: it answers whatever the state
\* of the INSERT is
ResumeWithoutAwait(i) ==
  /\ fb[i].query \in {"pending", "resolved", "rejected"}
  /\ fb[i].sent = 0
  /\ fb' = [fb EXCEPT ![i].sent = @ + 1,
                      ![i].sentAt = fb[i].query,
                      ![i].status = IF fb[i].query = "rejected" THEN 500 ELSE 201,
                      ![i].body = IF fb[i].query = "rejected" THEN InternalServerError
                                  ELSE fb[i].row]
  /\ UNCHANGED <<table, nextId>>
  /\ UNCHANGED validateVars

\* the handler of request i continues after the await: 201 with
\* result.rows[0], or the catch block's 500
ResumeAfterAwait(i) ==
  /\ fb[i].query \in {"resolved", "rejected"}
  /\ fb[i].sent = 0
  /\ fb' = [fb EXCEPT ![i].sent = @ + 1,
                      ![i].sentAt = fb[i].query,
                      ![i].status = IF fb[i].query = "resolved" THEN 201 ELSE 500,
                      ![i].body = IF fb[i].query = "resolved" THEN fb[i].row
                                  ELSE InternalServerError]
  /\ UNCHANGED <<table, nextId>>
  /\ UNCHANGED validateVars

Init ==
  /\ variant = "none"
  /\ req = <<>>
  /\ res = NoResponse
  /\ table = <<>>
  /\ nextId = 1
  /\ fb = <<>>

\* one /validate request to a fresh server, by the simplified handler
FirstValidateSimplified ==
  /\ res = NoResponse
  /\ \E F \in InputFamilies :
       \E m \in F[1], l \in F[1], r \in F[1], d \in F[1], i \in F[1], s \in F[1],
          n \in F[2] :
         PostValidateSimplified(SimplifiedBody(m, l, r, d, i, s, n))

\* one /validate request to a fresh server, by the detailed handler
FirstValidateDetailed ==
  /\ res = NoResponse
  /\ \E m \in DetailedInputs, i \in DetailedInputs, r \in DetailedInputs,
        d \in DetailedInputs, u \in DetailedInputs, a \in DetailedInputs,
        n \in DetailedInputs, s \in DetailedInputs, t \in DetailedMonthsInputs,
        o \in DetailedInputs :
       PostValidateDetailed(DetailedBody(m, i, r, d, u, a, n, s, t, o))

NextValidate == FirstValidateSimplified \/ FirstValidateDetailed

SpecValidate == Init /\ [][NextValidate]_vars

\* the server: requests of both kinds in any order, the feedback requests
\* overlapping while their INSERTs are pending
Next ==
  \/ \E b \in ServerSimplifiedBodies : PostValidateSimplified(b)
  \/ \E b \in ServerDetailedBodies : PostValidateDetailed(b)
  \/ \E v \in FeedbackInputs : PostFeedback(v)
  \/ \E i \in 1..Len(fb) : QueryResolves(i)
  \/ \E i \in 1..Len(fb) : QueryRejects(i)
  \/ \E i \in 1..Len(fb) : ResumeAfterAwait(i)

Spec == Init /\ [][Next]_vars

\* the pool settles every query and the event loop runs every continuation
FairSpec ==
  /\ Spec
  /\ \A i \in 1..MaxRequests :
       /\ WF_vars(i <= Len(fb) /\ (QueryResolves(i) \/ QueryRejects(i)))
       /\ WF_vars(i <= Len(fb) /\ ResumeAfterAwait(i))

\* ------------------------------------------------------------------------
\* Properties of the simplified /validate handler, under SpecValidate
\* ------------------------------------------------------------------------

Simplified == variant = "simplified"

\* the presence/range checks as the specification lists them: their order,
\* the fields whose rule is > 0, and the message of each
CheckOrder ==
  <<"movingAndSetupCost", "monthlyLivingCost", "rent", "monthsToEvaluate",
    "securityDeposit", "totalMonthlyIncome", "totalSavings">>

StrictlyPositive == {"rent", "totalMonthlyIncome"}

CheckMessage ==
  [movingAndSetupCost |-> "Invalid moving and setup costs provided.",
   monthlyLivingCost |-> "Invalid monthly living costs provided.",
   rent |-> "Invalid rent provided.",
   monthsToEvaluate |-> "Months To Evaluate must be between 1 and 60.",
   securityDeposit |-> "Invalid security deposit provided.",
   totalMonthlyIncome |-> "Invalid total monthly income provided.",
   totalSavings |-> "Invalid total savings provided."]

NumberMessages ==
  {fieldLabels[CheckOrder[i]] \o " must be a valid number." : i \in 1..Len(CheckOrder)}

\* the numeric value of v is outside [1, 60]
MonthsOutside(v) == Lt(v, Whole(1)) \/ Gt(v, Whole(60))

\* field f of body b fails its presence check or its range rule
FailsCheck(b, f) ==
  \/ Falsy(b[f])
  \/ IF f = "monthsToEvaluate" THEN MonthsOutside(b[f])
     ELSE IF f \in StrictlyPositive THEN Le(b[f], Whole(0))
     ELSE Lt(b[f], Whole(0))

Failing(b) == {i \in 1..Len(CheckOrder) : FailsCheck(b, CheckOrder[i])}

\* the least element of a set of numbers
Least(S) == CHOOSE i \in S : \A j \in S : i <= j

FirstFailing(b) == Least(Failing(b))

\* the three fields checked before monthsToEvaluate pass their checks
EarlierPass(b) == \A i \in 1..3 : ~FailsCheck(b, CheckOrder[i])

\* C1 as stated: monthsToEvaluate outside [1,60] gives a 400 with the months
\* message whatever the other six fields are
C1_MonthsMessageWhateverTheRest ==
  (Simplified /\ MonthsOutside(req.monthsToEvaluate))
    => (res.status = 400 /\ res.body.error = CheckMessage.monthsToEvaluate)

\* C1 amended: monthsToEvaluate outside [1,60] always gives a 400; its message
\* is the months message exactly when movingAndSetupCost, monthlyLivingCost
\* and rent, which are checked first, pass their checks, whatever
\* securityDeposit, totalMonthlyIncome and totalSavings are
C1_MonthsMessageWhenEarlierPass ==
  (Simplified /\ MonthsOutside(req.monthsToEvaluate))
    => /\ res.status = 400
       /\ EarlierPass(req) <=> res.body.error = CheckMessage.monthsToEvaluate

\* months out of range, the earlier fields valid, a later field invalid
C1_Witness ==
  /\ Simplified
  /\ req.monthsToEvaluate = JSNum(Whole(61))
  /\ EarlierPass(req)
  /\ FailsCheck(req, "securityDeposit")
  /\ req.totalSavings = Undefined
  /\ res.status = 400
  /\ res.body.error = CheckMessage.monthsToEvaluate

\* C2: the first failing check, in the order movingAndSetupCost,
\* monthlyLivingCost, rent, monthsToEvaluate, securityDeposit,
\* totalMonthlyIncome, totalSavings, decides the one 400 that is sent; a
\* "must be a valid number." message needs all seven checks passed; an error
\* and a calculation result never come together
C2_FirstFailureWins ==
  Simplified =>
    /\ res.status \in {200, 400}
    /\ LET failing == Failing(req)
       IN IF failing # {}
            THEN res = [status |-> 400,
                        body |-> [error |-> CheckMessage[CheckOrder[Least(failing)]]]]
          ELSE res.status = 400 => res.body.error \in NumberMessages
    /\ res.status = 400 => DOMAIN res = {"status", "body"} /\ DOMAIN res.body = {"error"}
    /\ res.status = 200 => "error" \notin DOMAIN res.body

\* three fields fail and the first of them, rent, is the one reported
C2_Witness ==
  /\ Simplified
  /\ Cardinality(Failing(req)) = 3
  /\ FirstFailing(req) = 3
  /\ 4 \in Failing(req)
  /\ res.status = 400
  /\ res.body.error = "Invalid rent provided."

\* v is a zero: the number 0 or a string that reads as 0
ZeroValued(v) ==
  \/ v.t = "number" /\ v.num = Whole(0)
  \/ v.t = "string" /\ v.str # <<>> /\ StringToNumber(v.str) = Whole(0)

\* C3 as stated: an input with a zero in any of the seven fields gets a 400
\* and never a 200
C3_ZeroAlwaysRejected ==
  (Simplified /\ \E i \in 1..Len(CheckOrder) : ZeroValued(req[CheckOrder[i]]))
    => res.status = 400

\* C3 amended: the number 0 in any of the seven fields gets a 400 and no
\* calculation; a zero sent as a string gets a 400 in rent, totalMonthlyIncome
\* and monthsToEvaluate only
C3_NumberZeroRejected ==
  Simplified =>
    /\ (\E i \in 1..Len(CheckOrder) : req[CheckOrder[i]] = JSNum(Whole(0)))
         => res.status = 400 /\ "calc" \notin DOMAIN res
    /\ (\E f \in StrictlyPositive \cup {"monthsToEvaluate"} : ZeroValued(req[f]))
         => res.status = 400

\* totalSavings, whose rule is >= 0, is the number 0 and every other field is
\* valid: the request is rejected as if totalSavings were missing
C3_Witness ==
  /\ Simplified
  /\ req.totalSavings = JSNum(Whole(0))
  /\ Failing(req) = {7}
  /\ res.status = 400
  /\ res.body.error = CheckMessage.totalSavings

\* ------------------------------------------------------------------------
\* Properties of the calculation, under SpecValidate
\* ------------------------------------------------------------------------

\* the request was accepted: a 200 with the calculation's locals
Accepted == res.status = 200

\* C4: for every accepted input, of either handler, the returned canAfford is
\* true if and only if totalSavings + totalMonthlyIncome * monthsToEvaluate
\* >= totalCostOverTime, with the amounts as the handler parsed them and the
\* totalCostOverTime of the same response
C4_CanAffordIffFundsCoverCost ==
  Accepted =>
    (res.body.canAfford <=>
       NumGe(NumAdd(res.calc.numTotalSavings,
                    NumMul(res.calc.numTotalMonthlyIncome, res.calc.numMonthsToEvaluate)),
             res.calc.totalCostOverTime))

\* the shortfall (totalCostOverTime - totalSavings) / monthsToEvaluate
\* - totalMonthlyIncome of a calculation
Shortfall(c) ==
  NumSub(NumDiv(NumSub(c.totalCostOverTime, c.numTotalSavings), c.numMonthsToEvaluate),
         c.numTotalMonthlyIncome)

\* C5: for every accepted input, additionalMonthlyIncomeNeeded is 0 when
\* canAfford is true, and when canAfford is false it is the shortfall, a
\* strictly positive number, rounded to two decimals; it is never negative
C5_ShortfallPositiveDecimal ==
  (Simplified /\ Accepted) =>
    IF res.body.canAfford
      THEN res.body.additionalMonthlyIncomeNeeded = JSNum(Whole(0))
    ELSE /\ IsFiniteNum(Shortfall(res.calc))
         /\ NumGt(Shortfall(res.calc), Whole(0))
         /\ res.body.additionalMonthlyIncomeNeeded = JSStr(ToFixed2(Shortfall(res.calc)))
         /\ IsFiniteNum(ToNumber(res.body.additionalMonthlyIncomeNeeded))
         /\ NumGe(ToNumber(res.body.additionalMonthlyIncomeNeeded), Whole(0))

\* C6: for every accepted input, totalCostOverTime = initialCosts +
\* totalMonthlyCost * monthsToEvaluate, with initialCosts = movingAndSetupCost
\* + securityDeposit, totalMonthlyCost = monthlyLivingCost + rent, and
\* monthsToEvaluate the value submitted in the request
C6_TotalsFromSubmittedValues ==
  (Simplified /\ Accepted) =>
    /\ res.calc.initialCosts =
         NumAdd(ToNumber(req.movingAndSetupCost), ToNumber(req.securityDeposit))
    /\ res.calc.totalMonthlyCost =
         NumAdd(ToNumber(req.monthlyLivingCost), ToNumber(req.rent))
    /\ res.calc.totalCostOverTime =
         NumAdd(res.calc.initialCosts,
                NumMul(res.calc.totalMonthlyCost, ToNumber(req.monthsToEvaluate)))

\* C10: in every request that reaches the calculation the divisor
\* totalMonthlyCost is strictly positive and the months used as divisor are
\* at least 1, so affordabilityDuration and additionalMonthlyIncomeNeeded are
\* finite numbers in the 200 response
C10_DivisorsPositive ==
  (Simplified /\ Accepted) =>
    /\ NumGt(res.calc.totalMonthlyCost, Whole(0))
    /\ NumGe(res.calc.numMonthsToEvaluate, Whole(1))
    /\ IsFiniteNum(res.calc.affordabilityDuration)
    /\ res.body.affordabilityDuration # Null
    /\ IsFiniteNum(ToNumber(res.body.additionalMonthlyIncomeNeeded))

\* ------------------------------------------------------------------------
\* Properties of /feedback and of the feedback table, under Spec
\* ------------------------------------------------------------------------

\* the feedback text is empty after trimming: absent, empty or blank
Blank(v) == v.t \in {"undefined", "null"} \/ (v.t = "string" /\ Trim(v.str) = <<>>)

Requests == 1..Len(fb)
Answered(i) == fb[i].sent > 0

\* C7: a /feedback request whose text is empty after trimming is answered
\* with a 400, no INSERT is issued for it and no row is stored for it
C7_BlankFeedbackRejected ==
  \A i \in Requests :
    Blank(fb[i].raw) =>
      /\ fb[i].query = "none"
      /\ fb[i].row = NoRow
      /\ Answered(i) => fb[i].status = 400

\* the rows of the table are those of the requests whose INSERT completed,
\* one each; a 201 carries its row; a 400 or 500 has stored none
StoreExactlyOnce ==
  /\ \A k \in 1..Len(table) :
       Cardinality({i \in Requests : fb[i].row = table[k]}) = 1
  /\ \A i \in Requests :
       /\ fb[i].status = 201 =>
            Cardinality({k \in 1..Len(table) : table[k] = fb[i].body}) = 1
       /\ fb[i].status \in {400, 500} =>
            fb[i].row = NoRow /\ \A k \in 1..Len(table) : table[k] # fb[i].body
  /\ (\A i \in Requests : Answered(i)) =>
       Len(table) = Cardinality({i \in Requests : fb[i].status = 201})

\* a step keeps every stored row, in place and unmodified
AppendOnly ==
  /\ Len(table') >= Len(table)
  /\ SubSeq(table', 1, Len(table)) = table

\* a step that answers a /validate request leaves the table as it is
ValidateKeepsTable == validateVars' # validateVars => table' = table

\* C8: the feedback table is append-only and exactly-once: it holds exactly
\* one row per request answered with 201, requests answered with 400 or 500
\* have added none, stored rows are never modified or removed, and
\* /validate leaves the table unchanged
C8_StoreAppendOnlyExactlyOnce ==
  /\ []StoreExactlyOnce
  /\ [][AppendOnly]_vars
  /\ [][ValidateKeepsTable]_vars

\* two feedback requests, the first answered 500 and the second 201 with the
\* one stored row, and a /validate request answered in between or after
C8_Witness ==
  /\ Len(fb) = 2
  /\ fb[1].status = 500
  /\ fb[2].status = 201
  /\ table = <<fb[2].body>>
  /\ res.status = 200

\* each request is answered at most once, never while its INSERT is pending,
\* with 201 and the stored row after the INSERT completed, or with 500 and
\* the fixed body after it failed
AnsweredAfterRoundTrip ==
  \A i \in Requests :
    /\ fb[i].sent <= 1
    /\ Answered(i) <=> fb[i].status # 0
    /\ fb[i].query = "pending" => ~Answered(i)
    /\ Answered(i) => fb[i].sentAt = fb[i].query /\ fb[i].status \in {201, 500}
    /\ fb[i].status = 201 =>
         /\ fb[i].sentAt = "resolved"
         /\ fb[i].body = fb[i].row
         /\ \E k \in 1..Len(table) : table[k] = fb[i].body
    /\ fb[i].status = 500 =>
         /\ fb[i].sentAt = "rejected"
         /\ fb[i].body = InternalServerError

\* C9: every /feedback request that passes sanitization receives exactly one
\* response, sent only after the storage round-trip has finished: 201 with
\* the stored row after the INSERT completed, or 500 with the fixed body
\* after it failed, and never while the INSERT is pending, also with several
\* requests in flight
C9_OneResponseAfterRoundTrip ==
  /\ []AnsweredAfterRoundTrip
  /\ \A i \in 1..MaxRequests : (i <= Len(fb)) ~> (i <= Len(fb) /\ Answered(i))

\* two requests in flight at once: the second is answered with its row while
\* the INSERT of the first is still pending and unanswered
C9_Witness ==
  /\ Len(fb) = 2
  /\ fb[1].query = "pending"
  /\ ~Answered(1)
  /\ fb[2].status = 201
  /\ fb[2].body = fb[2].row
  /\ table = <<fb[2].row>>

=============================================================================
